---- MODULE Spec2Model ----
(***************************************************************************)
(* Model of the deepfunding repository:                                    *)
(*   src/c_score.py                              CriticalityScorer         *)
(*   src/notebooks/dependency_graph_generator.py edge aggregation, graph   *)
(*                                               reduction                 *)
(*   src/notebooks/graph_generator.py            identifier normalisation  *)
(*                                                                         *)
(* Floating point values are modelled as exact rationals <<n, d>> in       *)
(* lowest terms (d > 0), extended with the IEEE special values             *)
(* NaN = <<0, 0>>, +inf = <<1, 0>> and -inf = <<-1, 0>>.                   *)
(***************************************************************************)
EXTENDS Integers, Sequences, FiniteSets, TLC

VARIABLES
    pc,              \* position of the scoring run (main of c_score.py)
    df,              \* the input table of c_score.py
    normalized_df,   \* result of normalize_metrics
    df_scored,       \* result of calculate_criticality_score
    underfunded,     \* result of analyze_underfunded_critical_projects
    threshold_percentile, \* the argument of the last detector call
    gpc,             \* position of the graph script
    train,           \* the relationship rows as read from the dataset
    merged_df,       \* the rows of dependency_graph_generator.py being rewritten
    edges_df,        \* aggregated / filtered edges
    G,               \* the networkx DiGraph
    spc,             \* position of the identifier normalisation
    raw,             \* a raw identifier string (sequence of characters)
    ident            \* the identifier column value being rewritten

vars == <<pc, df, normalized_df, df_scored, underfunded, threshold_percentile,
          gpc, train, merged_df, edges_df, G, spc, raw, ident>>

scoreVars == <<pc, df, normalized_df, df_scored, underfunded, threshold_percentile>>
graphVars == <<gpc, train, merged_df, edges_df, G>>
canonVars == <<spc, raw, ident>>

-----------------------------------------------------------------------------
(* Bounds of the model *)

MaxRows == 3

MaxLen == 3

MaxObs == 2

MaxEdges == 3

-----------------------------------------------------------------------------
(* float64 arithmetic as exact rationals with NaN and infinities *)

NaN == <<0, 0>>
Zero == <<0, 1>>
One == <<1, 1>>
Ten == <<10, 1>>

Abs(n) == IF n < 0 THEN -n ELSE n

Sign(n) == IF n < 0 THEN -1 ELSE IF n > 0 THEN 1 ELSE 0

RECURSIVE GCD(_, _)
GCD(a, b) == IF b = 0 THEN a ELSE GCD(b, a % b)

\* lowest terms; a zero denominator gives NaN (0/0) or a signed infinity
Norm(n, d) ==
    IF d = 0 THEN <<Sign(n), 0>>
    ELSE LET g == GCD(Abs(n), Abs(d))
         IN  <<(Sign(d) * n) \div g, Abs(d) \div g>>

R(n) == <<n, 1>>

IsNaN(x) == x = NaN

IsInf(x) == x[2] = 0 /\ x[1] # 0

RNeg(x) == <<-x[1], x[2]>>

RAdd(x, y) ==
    IF IsNaN(x) \/ IsNaN(y) THEN NaN
    ELSE IF IsInf(x) THEN (IF IsInf(y) /\ y # x THEN NaN ELSE x)
    ELSE IF IsInf(y) THEN y
    ELSE Norm(x[1] * y[2] + y[1] * x[2], x[2] * y[2])

RSub(x, y) == RAdd(x, RNeg(y))

RMul(x, y) ==
    IF IsNaN(x) \/ IsNaN(y) THEN NaN
    ELSE Norm(x[1] * y[1], x[2] * y[2])

RDiv(x, y) ==
    IF IsNaN(x) \/ IsNaN(y) THEN NaN
    ELSE Norm(x[1] * y[2], x[2] * y[1])

\* IEEE comparisons: every comparison with NaN is false
RLt(x, y) ==
    /\ ~IsNaN(x)
    /\ ~IsNaN(y)
    /\ x # y
    /\ IF IsInf(x) \/ IsInf(y)
       THEN x = <<-1, 0>> \/ y = <<1, 0>>
       ELSE x[1] * y[2] < y[1] * x[2]

RLe(x, y) == ~IsNaN(x) /\ ~IsNaN(y) /\ (x = y \/ RLt(x, y))

RGe(x, y) == RLe(y, x)

\* the builtin max(0, score): the first argument unless the second is greater
PyMax0(score) == IF RLt(Zero, score) THEN score ELSE Zero

\* Series.min() / Series.max(): NaN cells are skipped, NaN when nothing is left
SeriesMin(s) ==
    LET vals == {s[i] : i \in DOMAIN s} \ {NaN}
    IN  IF vals = {} THEN NaN
        ELSE CHOOSE v \in vals : \A w \in vals : RLe(v, w)

SeriesMax(s) ==
    LET vals == {s[i] : i \in DOMAIN s} \ {NaN}
    IN  IF vals = {} THEN NaN
        ELSE CHOOSE v \in vals : \A w \in vals : RLe(w, v)

\* np.log10 on the values the model feeds it: exact on powers of ten,
\* rounded to four decimals on the other arguments used (2, 11, 101, 10001)
Log10(x) ==
    IF IsNaN(x) THEN NaN
    ELSE IF x = R(1) THEN R(0)
    ELSE IF x = R(10) THEN R(1)
    ELSE IF x = R(100) THEN R(2)
    ELSE IF x = R(1000) THEN R(3)
    ELSE IF x = R(10000) THEN R(4)
    ELSE IF x = R(2) THEN Norm(3010, 10000)
    ELSE IF x = R(11) THEN Norm(10414, 10000)
    ELSE IF x = R(101) THEN Norm(20043, 10000)
    ELSE IF x = R(10001) THEN Norm(40000, 10000)
    ELSE NaN

-----------------------------------------------------------------------------
(* CriticalityScorer *)

\* self.weights, in the dictionary's insertion order
WeightOrder ==
    <<"created_since", "updated_since", "contributor_count", "org_count",
      "commit_frequency", "recent_releases", "closed_issues_count",
      "updated_issues_count", "new_contributors", "dependents_count",
      "subscribers_count", "language_count">>

Half == Norm(1, 2)

weights ==
    [m \in {WeightOrder[i] : i \in DOMAIN WeightOrder} |->
        CASE m = "created_since" -> R(1)
          [] m = "updated_since" -> R(-1)
          [] m = "contributor_count" -> R(2)
          [] m = "org_count" -> R(1)
          [] m = "commit_frequency" -> R(1)
          [] m = "recent_releases" -> Half
          [] m = "closed_issues_count" -> Half
          [] m = "updated_issues_count" -> Half
          [] m = "new_contributors" -> R(2)
          [] m = "dependents_count" -> R(2)
          [] m = "subscribers_count" -> R(1)
          [] m = "language_count" -> Half]

log_metrics ==
    {"contributor_count", "org_count", "commit_frequency", "recent_releases",
     "closed_issues_count", "updated_issues_count", "new_contributors",
     "dependents_count", "subscribers_count"}

simple_metrics == {"language_count"}

\* a table is [cols: the column names, rows: a sequence of [name, m]] where
\* m maps every column to a cell (a rational, or NaN for a missing value)
Column(t, c) == [i \in DOMAIN t.rows |-> t.rows[i].m[c]]

LogColumn(t, c) == [i \in DOMAIN t.rows |-> Log10(RAdd(t.rows[i].m[c], One))]

NormalizeCell(t, c, i) ==
    LET v == t.rows[i].m[c]
    IN  IF c \in log_metrics
        THEN LET log_values == LogColumn(t, c)
                 lo == SeriesMin(log_values)
                 hi == SeriesMax(log_values)
             IN  RMul(RDiv(RSub(log_values[i], lo), RSub(hi, lo)), Ten)
        ELSE IF c = "created_since"
        THEN RMul(RDiv(v, SeriesMax(Column(t, c))), Ten)
        ELSE IF c = "updated_since"
        THEN RMul(RSub(One, RDiv(v, SeriesMax(Column(t, c)))), Ten)
        ELSE IF c \in simple_metrics
        THEN RMul(RDiv(v, SeriesMax(Column(t, c))), Ten)
        ELSE v

normalize_metrics(t) ==
    [cols |-> t.cols,
     rows |-> [i \in DOMAIN t.rows |->
                 [name |-> t.rows[i].name,
                  m |-> [c \in t.cols |-> NormalizeCell(t, c, i)]]]]

\* the loop over self.weights.items() for one row of the normalised table
RECURSIVE WeightedSum(_, _, _)
WeightedSum(cols, m, k) ==
    IF k = 0 THEN Zero
    ELSE LET metric == WeightOrder[k]
             score == WeightedSum(cols, m, k - 1)
         IN  IF metric \in cols
             THEN RAdd(score, RMul(weights[metric], m[metric]))
             ELSE score

RawScore(t, i) == WeightedSum(t.cols, t.rows[i].m, Len(WeightOrder))

\* mutant: the floor max(0, score) left out
RowScore_NoFloor(t, i) == RawScore(t, i)

RowScore(t, i) == PyMax0(RawScore(t, i))

\* mutant: method='min' in place of method='dense'
DenseRank_Min(scores, i) ==
    IF IsNaN(scores[i]) THEN NaN
    ELSE R(Cardinality({j \in DOMAIN scores : RLt(scores[i], scores[j])}) + 1)

\* Series.rank(ascending=False, method='dense'); a NaN score keeps a NaN rank
DenseRank(scores, i) ==
    IF IsNaN(scores[i]) THEN NaN
    ELSE R(Cardinality({s \in {scores[j] : j \in DOMAIN scores} : RLt(scores[i], s)}) + 1)

\* df_with_scores before the final sort
WithScores(t) ==
    LET n == normalize_metrics(t)
        scores == [i \in DOMAIN t.rows |-> RowScore(n, i)]
    IN  [cols |-> t.cols,
         rows |-> [i \in DOMAIN t.rows |->
                     [name |-> t.rows[i].name,
                      m |-> t.rows[i].m,
                      criticality_score |-> scores[i],
                      criticality_rank |-> DenseRank(scores, i)]]]

Orders(n) == {p \in [1..n -> 1..n] : \A i, j \in 1..n : i # j => p[i] # p[j]}

\* sort_values('criticality_score', ascending=False): the default sort is not
\* stable, so any order with non-increasing scores (NaN last) is a possible result
SortedByScore(t) ==
    {[cols |-> t.cols, rows |-> [i \in DOMAIN t.rows |-> t.rows[p[i]]]] :
        p \in {q \in Orders(Len(t.rows)) :
                 \A i \in 1..(Len(t.rows) - 1) :
                    \/ IsNaN(t.rows[q[i + 1]].criticality_score)
                    \/ RGe(t.rows[q[i]].criticality_score,
                           t.rows[q[i + 1]].criticality_score)}}

calculate_criticality_score(t) == SortedByScore(WithScores(t))

\* the element at 0-based position k of the sorted values of a
KthSmallest(a, k) ==
    CHOOSE v \in {a[i] : i \in DOMAIN a} :
        /\ Cardinality({i \in DOMAIN a : RLt(a[i], v)}) <= k
        /\ k < Cardinality({i \in DOMAIN a : RLe(a[i], v)})

\* np.percentile(a, q), linear interpolation between the closest ranks
Percentile(a, q) ==
    LET n == Len(a)
    IN  IF n = 0 \/ \E i \in 1..n : IsNaN(a[i]) THEN NaN
        ELSE LET lo == (q * (n - 1)) \div 100
                 hi == IF lo + 1 > n - 1 THEN n - 1 ELSE lo + 1
                 frac == RSub(Norm(q * (n - 1), 100), R(lo))
                 below == KthSmallest(a, lo)
                 above == KthSmallest(a, hi)
             IN  RAdd(below, RMul(frac, RSub(above, below)))

ScoreColumn(t) == [i \in DOMAIN t.rows |-> t.rows[i].criticality_score]

\* the columns the detector reads or selects
DetectorColumns == {"stars", "dependents_count", "contributor_count"}

KeepRows(s, keep) ==
    LET F[i \in 0..Len(s)] ==
            IF i = 0 THEN <<>>
            ELSE IF i \in keep THEN Append(F[i - 1], s[i]) ELSE F[i - 1]
    IN  F[Len(s)]

\* mutant: the visibility comparison turned round
MaskRows_HighStars(t, high_criticality_threshold, low_visibility_threshold) ==
    {i \in DOMAIN t.rows :
        /\ RGe(t.rows[i].criticality_score, high_criticality_threshold)
        /\ RGe(t.rows[i].m["stars"], low_visibility_threshold)}

\* the boolean mask of the detector
MaskRows(t, high_criticality_threshold, low_visibility_threshold) ==
    {i \in DOMAIN t.rows :
        /\ RGe(t.rows[i].criticality_score, high_criticality_threshold)
        /\ RLe(t.rows[i].m["stars"], low_visibility_threshold)}

\* the thresholds and the mask of the detector, with the visibility percentile
\* (the literal 25 of the source) as a parameter
UnderfundedMask(t, score_percentile, visibility_percentile) ==
    MaskRows(t, Percentile(ScoreColumn(t), score_percentile),
                Percentile(Column(t, "stars"), visibility_percentile))

VisibilityPercentile == 25

\* underfunded[['name', 'criticality_score', 'stars', 'dependents_count',
\* 'contributor_count']] of one record
DetectorView(r) ==
    [name |-> r.name,
     criticality_score |-> r.criticality_score,
     m |-> [c \in DetectorColumns |-> r.m[c]]]

analyze_underfunded_critical_projects(t, p) ==
    LET kept == KeepRows(t.rows, UnderfundedMask(t, p, VisibilityPercentile))
    IN  SortedByScore([cols |-> DetectorColumns,
                       rows |-> [k \in DOMAIN kept |-> DetectorView(kept[k])]])

-----------------------------------------------------------------------------
(* The scoring run: main() of c_score.py on a loaded table *)

Missing == NaN

\* the values a loaded cell takes in the model, per column
CellSeq(c) ==
    CASE c = "dependents_count" -> <<R(10), R(10000)>>
      [] c = "contributor_count" -> <<R(1), R(100)>>
      [] c = "updated_since" -> <<R(1), R(300)>>
      [] c = "created_since" -> <<R(0), R(2), Missing>>
      [] c = "language_count" -> <<R(1), R(2)>>
      [] c = "stars" -> <<R(1), R(2)>>

CellValues(c) == {CellSeq(c)[k] : k \in DOMAIN CellSeq(c)}

\* the column sets of the loaded tables
ColumnSets ==
    {{"dependents_count", "contributor_count", "updated_since"},
     {"dependents_count", "contributor_count", "stars"},
     {"created_since", "language_count"}}

ColumnOrder ==
    <<"dependents_count", "contributor_count", "created_since",
      "updated_since", "language_count", "stars">>

RECURSIVE RowKey(_, _)
RowKey(m, k) ==
    IF k = 0 THEN 0
    ELSE LET c == ColumnOrder[k]
         IN  IF c \in DOMAIN m
             THEN 4 * RowKey(m, k - 1)
                  + (CHOOSE j \in DOMAIN CellSeq(c) : CellSeq(c)[j] = m[c])
             ELSE RowKey(m, k - 1)

RowsOf(cs) ==
    {m \in [cs -> UNION {CellValues(c) : c \in cs}] : \A c \in cs : m[c] \in CellValues(c)}

\* The loaded tables, up to the order of their rows: the rows are listed by
\* RowKey. Scoring reads the row order only to break ties in the final sort,
\* and SortedByScore allows every such order.
Tables ==
    UNION {{[cols |-> cs,
             rows |-> [i \in 1..n |-> [name |-> i, m |-> ms[i]]]] :
               ms \in {f \in [1..n -> RowsOf(cs)] :
                         \A i \in 1..(n - 1) :
                            RowKey(f[i], Len(ColumnOrder)) <= RowKey(f[i + 1], Len(ColumnOrder))}} :
           cs \in ColumnSets, n \in 0..MaxRows}

EmptyTable == [cols |-> {}, rows |-> <<>>]

ThresholdPercentiles == {50, 75}

IdleGraph ==
    /\ gpc = "idle"
    /\ train = <<>>
    /\ merged_df = <<>>
    /\ edges_df = {}
    /\ G = [nodes |-> {}, edges |-> {}]

IdleCanon == spc = "idle" /\ raw = <<>> /\ ident = <<>>

IdleScore ==
    /\ pc = "idle"
    /\ df = EmptyTable
    /\ normalized_df = EmptyTable
    /\ df_scored = EmptyTable
    /\ underfunded = EmptyTable
    /\ threshold_percentile = 0

InitScore ==
    /\ pc = "loaded"
    /\ df \in Tables
    /\ normalized_df = EmptyTable
    /\ df_scored = EmptyTable
    /\ underfunded = EmptyTable
    /\ threshold_percentile = 0
    /\ IdleGraph
    /\ IdleCanon

Score ==
    /\ pc = "loaded"
    /\ normalized_df' = normalize_metrics(df)
    /\ df_scored' \in calculate_criticality_score(df)
    /\ pc' = "scored"
    /\ UNCHANGED <<df, underfunded, threshold_percentile, graphVars, canonVars>>

Detect ==
    /\ pc = "scored"
    /\ DetectorColumns \subseteq df_scored.cols
    /\ \E p \in ThresholdPercentiles :
          /\ threshold_percentile' = p
          /\ underfunded' \in analyze_underfunded_critical_projects(df_scored, p)
    /\ pc' = "detected"
    /\ UNCHANGED <<df, normalized_df, df_scored, graphVars, canonVars>>

\* a KeyError when the table lacks a column the detector reads; on an empty
\* table np.percentile raises or returns NaN, depending on the numpy version
DetectRaises ==
    /\ pc = "scored"
    /\ ~(DetectorColumns \subseteq df_scored.cols) \/ Len(df_scored.rows) = 0
    /\ pc' = "raised"
    /\ UNCHANGED <<df, normalized_df, df_scored, underfunded, threshold_percentile,
                   graphVars, canonVars>>

NextScore == Score \/ Detect \/ DetectRaises

Spec == InitScore /\ [][NextScore]_vars

-----------------------------------------------------------------------------
(* Identifier normalisation: the with_columns expression of both notebooks *)

\* a null cell of a string column
Null == <<"NULL">>

Whitespace == {" "}

RECURSIVE StripStart(_, _)
StripStart(str, chars) ==
    IF str # <<>> /\ Head(str) \in chars THEN StripStart(Tail(str), chars) ELSE str

RECURSIVE StripEnd(_, _)
StripEnd(str, chars) ==
    IF str # <<>> /\ str[Len(str)] \in chars
    THEN StripEnd(SubSeq(str, 1, Len(str) - 1), chars)
    ELSE str

\* str.strip_chars(): whitespace removed at both ends
strip_chars(str) == IF str = Null THEN Null ELSE StripEnd(StripStart(str, Whitespace), Whitespace)

\* str.strip_chars_end('/')
strip_chars_end(str) == IF str = Null THEN Null ELSE StripEnd(str, {"/"})

LowerChar(ch) ==
    CASE ch = "A" -> "a"
      [] ch = "B" -> "b"
      [] ch = "P" -> "p"
      [] OTHER -> ch

\* str.to_lowercase()
to_lowercase(str) == IF str = Null THEN Null ELSE [k \in DOMAIN str |-> LowerChar(str[k])]

\* pl.col(..).str.strip_chars().str.strip_chars_end('/').str.to_lowercase()
Canonicalize(str) == to_lowercase(strip_chars_end(strip_chars(str)))

CanonAlphabet == {"a", "A", "/", " "}

RawStrings == UNION {[1..n -> CanonAlphabet] : n \in 0..MaxLen}

InitCanon ==
    /\ spc = "raw"
    /\ raw \in RawStrings \cup {Null}
    /\ ident = raw
    /\ IdleScore
    /\ IdleGraph

NormalizeIdentifier ==
    /\ spc = "raw"
    /\ ident' = Canonicalize(ident)
    /\ spc' = "normalized"
    /\ UNCHANGED <<raw, scoreVars, graphVars>>

NextCanon == NormalizeIdentifier

SpecCanon == InitCanon /\ [][NextCanon]_vars

\* C8: canonicalisation is idempotent, and two raw strings that differ only
\* by letter case or by a trailing slash canonicalise to the same identifier.
C8_CanonicalizationIdempotent ==
    spc = "normalized" =>
        /\ Canonicalize(ident) = ident
        /\ \A other \in RawStrings :
              (raw # Null /\ (to_lowercase(other) = to_lowercase(raw) \/ other = raw \o <<"/">>))
                 => Canonicalize(other) = ident

\* the idempotence alone
C8_Idempotent == spc = "normalized" => Canonicalize(ident) = ident

\* the example of the specification, which the code does satisfy
C8_ExampleHolds ==
    Canonicalize(<<"A", "a", "/", "B", "a", "/">>) = Canonicalize(<<"a", "a", "/", "b", "a">>)

-----------------------------------------------------------------------------
(* dependency_graph_generator.py: normalise, filter and aggregate the rows *)

NormalizeColumns(rows) ==
    [k \in DOMAIN rows |->
        [repo_a |-> Canonicalize(rows[k].repo_a),
         repo_b |-> Canonicalize(rows[k].repo_b),
         parent |-> Canonicalize(rows[k].parent),
         multiplier |-> rows[k].multiplier]]

KeepSeq(rows, keep) ==
    LET F[k \in 0..Len(rows)] ==
            IF k = 0 THEN <<>>
            ELSE IF k \in keep THEN Append(F[k - 1], rows[k]) ELSE F[k - 1]
    IN  F[Len(rows)]

\* filter(repo_a != repo_b): a comparison with a null is null, and filter
\* keeps only the rows where the predicate is true
FilterSelfEdges(rows) ==
    KeepSeq(rows, {k \in DOMAIN rows :
                     /\ rows[k].repo_a # Null
                     /\ rows[k].repo_b # Null
                     /\ rows[k].repo_a # rows[k].repo_b})

\* drop_nulls(["repo_a", "repo_b", "parent"])
DropNulls(rows) ==
    KeepSeq(rows, {k \in DOMAIN rows :
                     /\ rows[k].repo_a # Null
                     /\ rows[k].repo_b # Null
                     /\ rows[k].parent # Null})

RECURSIVE SumMultipliers(_, _)
SumMultipliers(rows, ks) ==
    IF ks = {} THEN 0
    ELSE LET k == CHOOSE x \in ks : TRUE
         IN  rows[k].multiplier + SumMultipliers(rows, ks \ {k})

\* mutant: the multipliers of a group are summed, not averaged
GroupMean_Sum(rows, ks) == R(SumMultipliers(rows, ks))

\* pl.col("multiplier").mean() over the rows ks of one group
GroupMean(rows, ks) == Norm(SumMultipliers(rows, ks), Cardinality(ks))

\* select(source, target, multiplier).group_by(["source", "target"]).agg(mean, count);
\* the order of the groups is not specified, so the result is a set of edges
AggregateEdges(rows) ==
    {[source |-> key[1],
      target |-> key[2],
      multiplier |-> GroupMean(rows, {k \in DOMAIN rows :
                                        <<rows[k].repo_a, rows[k].repo_b>> = key}),
      count |-> Cardinality({k \in DOMAIN rows :
                               <<rows[k].repo_a, rows[k].repo_b>> = key})] :
        key \in {<<rows[k].repo_a, rows[k].repo_b>> : k \in DOMAIN rows}}

\* the raw cells of the model
RawRepoA == <<<<"A", "/">>, <<"b">>, Null>>

RawRepoB == <<<<"a">>, <<"b">>, <<" ", "B">>, Null>>

RawParent == <<<<"P">>, Null>>

RawMultiplier == <<2, 4>>

IndexIn(seq, v) == CHOOSE k \in DOMAIN seq : seq[k] = v

RawRowKey(r) ==
    ((IndexIn(RawRepoA, r.repo_a) * 4 + IndexIn(RawRepoB, r.repo_b)) * 4
        + IndexIn(RawParent, r.parent)) * 4 + IndexIn(RawMultiplier, r.multiplier)

RawRows ==
    {[repo_a |-> RawRepoA[a], repo_b |-> RawRepoB[b],
      parent |-> RawParent[q], multiplier |-> RawMultiplier[x]] :
        a \in DOMAIN RawRepoA, b \in DOMAIN RawRepoB,
        q \in DOMAIN RawParent, x \in DOMAIN RawMultiplier}

\* The datasets, up to the order of their rows (listed by RawRowKey): neither
\* the filters nor the grouping depend on the order.
Datasets ==
    UNION {{f \in [1..n -> RawRows] :
              \A k \in 1..(n - 1) : RawRowKey(f[k]) <= RawRowKey(f[k + 1])} :
           n \in 0..MaxObs}

EmptyGraph == [nodes |-> {}, edges |-> {}]

InitAggregate ==
    /\ gpc = "loaded"
    /\ train \in Datasets
    /\ merged_df = train
    /\ edges_df = {}
    /\ G = EmptyGraph
    /\ IdleScore
    /\ IdleCanon

NormalizeRows ==
    /\ gpc = "loaded"
    /\ merged_df' = NormalizeColumns(merged_df)
    /\ gpc' = "normalized"
    /\ UNCHANGED <<train, edges_df, G, scoreVars, canonVars>>

FilterRows ==
    /\ gpc = "normalized"
    /\ merged_df' = DropNulls(FilterSelfEdges(merged_df))
    /\ gpc' = "filtered"
    /\ UNCHANGED <<train, edges_df, G, scoreVars, canonVars>>

Aggregate ==
    /\ gpc = "filtered"
    /\ edges_df' = AggregateEdges(merged_df)
    /\ gpc' = "aggregated"
    /\ UNCHANGED <<train, merged_df, G, scoreVars, canonVars>>

NextAggregate == NormalizeRows \/ FilterRows \/ Aggregate

SpecAggregate == InitAggregate /\ [][NextAggregate]_vars

\* the observations of the canonical pair <<s, t>>: the rows of the dataset
\* without a null that canonicalise to it
Observations(s, t) ==
    {k \in DOMAIN train :
        /\ train[k].repo_a # Null
        /\ train[k].repo_b # Null
        /\ train[k].parent # Null
        /\ Canonicalize(train[k].repo_a) = s
        /\ Canonicalize(train[k].repo_b) = t}

CanonicalIds ==
    {Canonicalize(train[k].repo_a) : k \in DOMAIN train}
       \cup {Canonicalize(train[k].repo_b) : k \in DOMAIN train}

ObservedPairs ==
    {pr \in CanonicalIds \X CanonicalIds : pr[1] # pr[2] /\ Observations(pr[1], pr[2]) # {}}

-----------------------------------------------------------------------------
(* dependency_graph_generator.py: the count filter and the largest component *)

MIN_COUNT == 2

\* edges_df.filter(pl.col("count") >= MIN_COUNT)
FilterByCount(edges) == {e \in edges : e.count >= MIN_COUNT}

\* nx.DiGraph() and one add_edge per row of edges_df
BuildDiGraph(edges) ==
    [nodes |-> {e.source : e \in edges} \cup {e.target : e \in edges},
     edges |-> {[source |-> e.source, target |-> e.target,
                 weight |-> e.multiplier, count |-> e.count] : e \in edges}]

Neighbours(g, n) ==
    {e.target : e \in {x \in g.edges : x.source = n}}
       \cup {e.source : e \in {x \in g.edges : x.target = n}}

RECURSIVE Grow(_, _)
Grow(g, seen) ==
    LET more == seen \cup UNION {Neighbours(g, n) : n \in seen}
    IN  IF more = seen THEN seen ELSE Grow(g, more)

\* nx.weakly_connected_components(G)
weakly_connected_components(g) == {Grow(g, {n}) : n \in g.nodes}

\* nx.is_weakly_connected(G), for a graph with at least one node
is_weakly_connected(g) == Cardinality(weakly_connected_components(g)) = 1

\* mutant: min in place of max
LargestComponents_Min(g) ==
    {c \in weakly_connected_components(g) :
        \A d \in weakly_connected_components(g) : Cardinality(c) <= Cardinality(d)}

\* max(nx.weakly_connected_components(G), key=len): the first component of
\* maximal size in an iteration order that follows the unspecified row order
\* of edges_df, so any component of maximal size
LargestComponents(g) ==
    {c \in weakly_connected_components(g) :
        \A d \in weakly_connected_components(g) : Cardinality(d) <= Cardinality(c)}

\* G.subgraph(largest_cc).copy()
Subgraph(g, ns) ==
    [nodes |-> g.nodes \cap ns,
     edges |-> {e \in g.edges : e.source \in ns /\ e.target \in ns}]

\* the node identifiers of the model's aggregated edges
NodeIds == 1..5

\* the (source, target) pairs of the model's edges: every ascending pair, and
\* two descending ones so that antiparallel edges and a directed cycle occur
NodePairs == {pr \in NodeIds \X NodeIds : pr[1] < pr[2]} \cup {<<2, 1>>, <<3, 1>>}

\* the counts of the aggregated edges: below and at the threshold
EdgeCounts == {MIN_COUNT - 1, MIN_COUNT}

Edge(pr, n) == [source |-> pr[1], target |-> pr[2], multiplier |-> R(n), count |-> n]

\* the sets of at most k aggregated edges over the pairs prs, one per pair
RECURSIVE EdgeSetsOver(_, _)
EdgeSetsOver(prs, k) ==
    IF k = 0 \/ prs = {} THEN {{}}
    ELSE LET pr == CHOOSE x \in prs : TRUE
         IN  EdgeSetsOver(prs \ {pr}, k)
                \cup {es \cup {Edge(pr, n)} :
                         es \in EdgeSetsOver(prs \ {pr}, k - 1), n \in EdgeCounts}

EdgeSets == EdgeSetsOver(NodePairs, MaxEdges)

\* components of 5 and of 3 nodes, joined only by an edge observed once
ExampleEdges ==
    {Edge(<<1, 2>>, 2), Edge(<<2, 3>>, 2), Edge(<<4, 3>>, 2), Edge(<<4, 5>>, 3),
     Edge(<<5, 1>>, 2), Edge(<<5, 6>>, 1), Edge(<<6, 7>>, 2), Edge(<<8, 7>>, 2)}

InitReduce ==
    /\ gpc = "aggregated"
    /\ train = <<>>
    /\ merged_df = <<>>
    /\ edges_df \in EdgeSets \cup {ExampleEdges}
    /\ G = EmptyGraph
    /\ IdleScore
    /\ IdleCanon

Threshold ==
    /\ gpc = "aggregated"
    /\ edges_df' = FilterByCount(edges_df)
    /\ gpc' = "thresholded"
    /\ UNCHANGED <<train, merged_df, G, scoreVars, canonVars>>

BuildGraph ==
    /\ gpc = "thresholded"
    /\ G' = BuildDiGraph(edges_df)
    /\ gpc' = "built"
    /\ UNCHANGED <<train, merged_df, edges_df, scoreVars, canonVars>>

Reduce ==
    /\ gpc = "built"
    /\ G.nodes # {}
    /\ IF is_weakly_connected(G)
       THEN G' = G
       ELSE \E largest_cc \in LargestComponents(G) : G' = Subgraph(G, largest_cc)
    /\ gpc' = "reduced"
    /\ UNCHANGED <<train, merged_df, edges_df, scoreVars, canonVars>>

\* nx.is_weakly_connected raises NetworkXPointlessConcept on the null graph
ReduceRaises ==
    /\ gpc = "built"
    /\ G.nodes = {}
    /\ gpc' = "raised"
    /\ UNCHANGED <<train, merged_df, edges_df, G, scoreVars, canonVars>>

NextReduce == Threshold \/ BuildGraph \/ Reduce \/ ReduceRaises

SpecReduce == InitReduce /\ [][NextReduce]_vars

\* every split of the nodes ns in two is crossed by an edge
ConnectedIn(ns, edges) ==
    \A part \in SUBSET ns :
        (part # {} /\ part # ns) =>
            \E e \in edges :
                \/ e.source \in part /\ e.target \in ns \ part
                \/ e.target \in part /\ e.source \in ns \ part

EndPoints(edges) == {e.source : e \in edges} \cup {e.target : e \in edges}

C10_DropsSmaller ==
    /\ gpc = "reduced"
    /\ Cardinality(EndPoints(edges_df)) = 5
    /\ Cardinality(G.nodes) = 3

-----------------------------------------------------------------------------
(* Claims about the scoring run *)

Scored == pc \in {"scored", "detected", "raised"}

ScoredRows == DOMAIN df_scored.rows

ScoreOf(i) == df_scored.rows[i].criticality_score

RankOf(i) == df_scored.rows[i].criticality_rank

\* the metrics of a table that carry a weight
Weighted(t) == t.cols \cap DOMAIN weights

\* C1: every record returned by calculate_criticality_score has
\* criticality_score >= 0, also when its raw weighted sum is negative.
C1_ScoreFloor == \A i \in ScoredRows : RGe(ScoreOf(i), Zero)

\* a returned record whose raw weighted sum is negative was clamped to 0
C1_Witness ==
    /\ pc = "scored"
    /\ \E i \in ScoredRows :
          /\ RLt(RawScore(normalized_df, df_scored.rows[i].name), Zero)
          /\ ScoreOf(i) = Zero

\* C2: criticality_rank is the dense rank by score descending: the highest
\* score has rank 1, equal scores have equal ranks, a lower score has a larger
\* rank, and every rank above 1 directly follows a rank that is in use.
C2_DenseRank ==
    /\ \A i \in ScoredRows :
          (\A j \in ScoredRows : RLe(ScoreOf(j), ScoreOf(i))) => RankOf(i) = R(1)
    /\ \A i, j \in ScoredRows :
          /\ ScoreOf(i) = ScoreOf(j) => RankOf(i) = RankOf(j)
          /\ RLt(ScoreOf(j), ScoreOf(i)) => RLt(RankOf(i), RankOf(j))
    /\ \A i \in ScoredRows :
          RankOf(i) # R(1) =>
             \E j \in ScoredRows :
                /\ RankOf(j) = RSub(RankOf(i), R(1))
                /\ RLt(ScoreOf(i), ScoreOf(j))

\* two records tie at rank 1 and a third, lower one has rank 2
C2_Witness ==
    /\ pc = "scored"
    /\ \E i, j, k \in ScoredRows :
          /\ i # j
          /\ ScoreOf(i) = ScoreOf(j)
          /\ RLt(ScoreOf(k), ScoreOf(i))
          /\ RankOf(i) = R(1)
          /\ RankOf(k) = R(2)

NoMissing(t) == \A i \in DOMAIN t.rows : \A c \in t.cols : t.rows[i].m[c] # Missing

\* C3: for a table of non-negative metrics (no cell missing), every value
\* normalize_metrics produces for a metric lies in [0, 10] and so is never NaN.
C3_NormalizedInRange ==
    (Scored /\ NoMissing(df)) =>
        \A i \in DOMAIN normalized_df.rows : \A c \in Weighted(normalized_df) :
            /\ RLe(Zero, normalized_df.rows[i].m[c])
            /\ RLe(normalized_df.rows[i].m[c], Ten)

\* two records that are equal on every metric but updated_since
DifferOnlyInUpdated(i, j) ==
    /\ "updated_since" \in df_scored.cols
    /\ \A c \in df_scored.cols \ {"updated_since"} :
          df_scored.rows[i].m[c] = df_scored.rows[j].m[c]
    /\ RLt(df_scored.rows[i].m["updated_since"], df_scored.rows[j].m["updated_since"])

\* C4: of two projects of one table that are equal on every metric except
\* updated_since, the more recently updated one does not score lower.
C4_StalenessPenalizedOnce ==
    \A i, j \in ScoredRows :
        DifferOnlyInUpdated(i, j) => RGe(ScoreOf(i), ScoreOf(j))

\* the table of the end-to-end example: B is listed first, then A
ExampleTable ==
    [cols |-> {"dependents_count", "contributor_count", "updated_since"},
     rows |-> <<[name |-> 1,
                 m |-> [c \in {"dependents_count", "contributor_count", "updated_since"} |->
                          CASE c = "dependents_count" -> R(10)
                            [] c = "contributor_count" -> R(1)
                            [] c = "updated_since" -> R(300)]],
                [name |-> 2,
                 m |-> [c \in {"dependents_count", "contributor_count", "updated_since"} |->
                          CASE c = "dependents_count" -> R(10000)
                            [] c = "contributor_count" -> R(100)
                            [] c = "updated_since" -> R(1)]]>>]

WeightedTerm(name, c) == RMul(weights[c], normalized_df.rows[name].m[c])

\* C5: on the example table A (name 2) has rank 1, B (name 1) has rank 2, and
\* every weighted metric term of A is at least the corresponding term of B.
C5_EndToEndExample ==
    (pc = "scored" /\ df = ExampleTable) =>
        /\ \A i \in ScoredRows :
              RankOf(i) = (IF df_scored.rows[i].name = 2 THEN R(1) ELSE R(2))
        /\ \A c \in Weighted(df) : RGe(WeightedTerm(2, c), WeightedTerm(1, c))

\* the ranks of the example alone, which the code does produce
C5_RanksOnly ==
    (pc = "scored" /\ df = ExampleTable) =>
        \A i \in ScoredRows :
            RankOf(i) = (IF df_scored.rows[i].name = 2 THEN R(1) ELSE R(2))

\* the weighted sum over the metrics a record does have
RECURSIVE SumPresent(_, _)
SumPresent(name, k) ==
    IF k = 0 THEN Zero
    ELSE LET c == WeightOrder[k]
         IN  IF c \in df.cols /\ df.rows[name].m[c] # Missing
             THEN RAdd(SumPresent(name, k - 1), WeightedTerm(name, c))
             ELSE SumPresent(name, k - 1)

\* C6: the score of a record is the (floored) weighted sum over the metrics it
\* has; a missing metric is left out and does not change the other terms.
C6_MissingMetricLeftOut ==
    Scored =>
        \A i \in ScoredRows :
            ScoreOf(i) = PyMax0(SumPresent(df_scored.rows[i].name, Len(WeightOrder)))

Percentiles == <<0, 25, 50, 75, 100>>

Flagged(p, q) == UnderfundedMask(df_scored, p, q)

\* the flagged sets at each visibility percentile, the score percentile as called
ByVisibility ==
    <<Flagged(threshold_percentile, Percentiles[1]),
      Flagged(threshold_percentile, Percentiles[2]),
      Flagged(threshold_percentile, Percentiles[3]),
      Flagged(threshold_percentile, Percentiles[4]),
      Flagged(threshold_percentile, Percentiles[5])>>

\* the flagged sets at each score percentile, the visibility percentile as in the code
ByScore ==
    <<Flagged(Percentiles[1], VisibilityPercentile),
      Flagged(Percentiles[2], VisibilityPercentile),
      Flagged(Percentiles[3], VisibilityPercentile),
      Flagged(Percentiles[4], VisibilityPercentile),
      Flagged(Percentiles[5], VisibilityPercentile)>>

\* the returned records are records of the scored table that meet both cutoffs
C7_SubsetWithinCutoffs ==
    LET high == Percentile(ScoreColumn(df_scored), threshold_percentile)
        low == Percentile(Column(df_scored, "stars"), VisibilityPercentile)
    IN  \A k \in DOMAIN underfunded.rows :
            /\ \E i \in ScoredRows :
                  /\ df_scored.rows[i].name = underfunded.rows[k].name
                  /\ df_scored.rows[i].criticality_score = underfunded.rows[k].criticality_score
                  /\ \A c \in underfunded.cols :
                        df_scored.rows[i].m[c] = underfunded.rows[k].m[c]
            /\ RGe(underfunded.rows[k].criticality_score, high)
            /\ RLe(underfunded.rows[k].m["stars"], low)

====
